---- MODULE Spec2Model ----
(***************************************************************************)
(* Model of src/src/convert-all.py: the batch document-to-Markdown         *)
(* converter.  main() either runs process_directory (enumerate, partition, *)
(* one thread per chunk, join, aggregate) or process_single_file, and      *)
(* exits with a code derived from the result.                              *)
(*                                                                         *)
(* Enumerated files are the indices 1..T of supported_files.  A file has a *)
(* stem (its output is OUT/<stem>.md), a conversion outcome (whether the   *)
(* document library and the file I/O raise for it) and a rendered content. *)
(* The output directory is the partial function out: stem -> bytes.        *)
(***************************************************************************)
EXTENDS Integers, Sequences, FiniteSets, TLC

\* ------------------------------------------------------------------ bounds
MaxFiles == 3
MaxThreads == 3
\* The partition alone is checked on longer task lists and more threads.
MaxPartFiles == 10
MaxPartThreads == 6
\* The longest source text the source-code conversion is checked on.
MaxSourceLen == 2

\* ------------------------------------------------------------------ inputs
Stems == {"report", "notes"}
PathKinds == {"missing", "dir", "file"}
Modes == {"directory", "file"}

\* Suffixes a --filepath argument may carry, as sequences of characters.
Suffixes ==
    { <<".", "p", "d", "f">>, <<".", "P", "D", "F">>, <<".", "P", "y">>,
      <<".", "x", "y", "z">>, <<>> }

\* str.lower() on one character, for the characters of Suffixes and
\* SourceSuffixes.
LowerChar(c) ==
    CASE c = "P" -> "p"
      [] c = "A" -> "a"
      [] c = "B" -> "b"
      [] c = "C" -> "c"
      [] c = "D" -> "d"
      [] c = "F" -> "f"
      [] c = "Y" -> "y"
      [] c = "X" -> "x"
      [] c = "Z" -> "z"
      [] OTHER -> c

\* str.lower() on a suffix.
Lower(s) == [k \in 1..Len(s) |-> LowerChar(s[k])]

\* The keys of get_supported_extensions() that Suffixes can reach.
SupportedExtensions == { <<".", "p", "d", "f">>, <<".", "p", "y">> }

\* Path.exists(), Path.is_file(), Path.is_dir().
Exists(kind) == kind # "missing"
IsFile(kind) == kind = "file"
IsDir(kind) == kind = "dir"

\* The text a conversion writes for file f: ContentLen(f) bytes, all tagged f.
ContentLen(f) == IF f % 2 = 1 THEN 2 ELSE 1
Content(f) == [k \in 1..ContentLen(f) |-> f]

NoResult == <<-1, -1>>
NoFiles == [s \in {} |-> <<>>]

VARIABLES
    mode,           \* which of --directorypath / --filepath was given
    pathKind,       \* what the given path is on disk
    suffix,         \* --filepath: the path's suffix
    num_threads,    \* --subthread
    stem,           \* stem[f] of each enumerated file (file mode: file 1)
    ok,             \* ok[f]: the conversion of f raises nothing
    hang,           \* the file whose conversion never returns (0: none)
    source,         \* --filepath: the text of the file, as characters
    pc,             \* position of the main thread
    message,        \* the failure reason printed by the validation, if any
    file_chunks,    \* process_directory: the chunks, in order
    idx,            \* main thread loop index (sequential / spawn / join)
    threads,        \* process_directory: indices of the started threads, in order
    wstate,         \* per worker: "unstarted", "running", "blocked", "finished"
    wpos,           \* per worker: position in its chunk
    wopen,          \* per worker: its current file's output is open for writing
    local_success,  \* per worker: local_success
    results_dict,   \* the shared result dictionary
    success_count,  \* process_directory: success_count / total_success
    total_count,    \* process_directory: total_count
    result,         \* what process_directory returned, NoResult before
    success,        \* what process_single_file returned: "none", "true", "false"
    exitCode,       \* sys.exit code, -1 while running
    out,            \* the output directory: stem -> bytes
    invoked,        \* history: calls of convert_file_to_markdown per file
    returned,       \* history: "pending", "true", "false" per file
    slotWrites,     \* history: number of writes to each result slot
    firstWrite,     \* history: first value written to each result slot
    lastWriter,     \* history: per stem, the file whose write came last (0: none)
    raced           \* history: f's open..close overlapped another file's on the same output

vars == <<mode, pathKind, suffix, num_threads, stem, ok, hang, source, pc, message, file_chunks,
          idx, threads, wstate, wpos, wopen, local_success, results_dict,
          success_count, total_count, result, success, exitCode, out, invoked, returned, slotWrites, firstWrite, lastWriter, raced>>

Workers == 0..(MaxThreads - 1)
T == Cardinality(DOMAIN stem)
supported_files == [f \in 1..T |-> f]

\* The state at the entry of main(), whatever the arguments are.
Start ==
    /\ pc = "main"
    /\ message = "none"
    /\ file_chunks = <<>>
    /\ idx = 0
    /\ threads = <<>>
    /\ wstate = [i \in Workers |-> "unstarted"]
    /\ wpos = [i \in Workers |-> 1]
    /\ wopen = [i \in Workers |-> FALSE]
    /\ local_success = [i \in Workers |-> 0]
    /\ results_dict = [k \in {} |-> NoResult]
    /\ success_count = 0
    /\ total_count = 0
    /\ result = NoResult
    /\ success = "none"
    /\ exitCode = -1
    /\ out = NoFiles
    /\ invoked = [f \in DOMAIN stem |-> 0]
    /\ returned = [f \in DOMAIN stem |-> "pending"]
    /\ slotWrites = [i \in Workers |-> 0]
    /\ firstWrite = [i \in Workers |-> NoResult]
    /\ lastWriter = [s \in Stems |-> 0]
    /\ raced = [f \in DOMAIN stem |-> FALSE]

\* Any command line, and any directory of up to MaxFiles supported files.
Init ==
    /\ mode \in Modes
    /\ pathKind \in PathKinds
    /\ num_threads \in 0..MaxThreads
    /\ \E n \in 0..MaxFiles :
          /\ (mode = "file") => n = 1
          /\ (mode = "directory" /\ pathKind # "dir") => n = 0
          /\ stem \in [1..n -> Stems]
          /\ ok \in [1..n -> BOOLEAN]
    /\ suffix \in IF mode = "file" THEN Suffixes ELSE {<<>>}
    /\ hang = 0
    /\ source = <<>>
    /\ Start

\* ------------------------------------------------------------ output files
\* Variant: the output is opened without truncating what it holds.
OpenForWrite_NoTruncate(o, s) ==
    [k \in DOMAIN o \cup {s} |-> IF k \in DOMAIN o THEN o[k] ELSE <<>>]

\* open(output_file_path, 'w'): create the file or truncate it to nothing.
OpenForWrite(o, s) == [k \in DOMAIN o \cup {s} |-> IF k = s THEN <<>> ELSE o[k]]

\* f.write(content) through a descriptor whose offset is 0: the bytes land at
\* the start of whatever the file holds now (one write, flushed at close).
WriteAtStart(o, s, c) ==
    LET old == o[s]
        n == IF Len(c) > Len(old) THEN Len(c) ELSE Len(old)
    IN [o EXCEPT ![s] = [k \in 1..n |-> IF k <= Len(c) THEN c[k] ELSE old[k]]]

\* What one whole call of convert_file_to_markdown can leave in the output
\* directory when nothing else runs in between: the content written, or (when
\* the conversion raises) the directory untouched or the output truncated.
ConvertOutcomes(o, f) ==
    IF ok[f]
    THEN { WriteAtStart(OpenForWrite(o, stem[f]), stem[f], Content(f)) }
    ELSE { o, OpenForWrite(o, stem[f]) }

\* if convert_file_to_markdown(...): local_success += 1
CountSuccess(count, converted) == IF converted THEN count + 1 ELSE count

\* ------------------------------------------------------------- validation
DirectoryReason(kind) ==
    IF ~Exists(kind) THEN "dir_not_found"
    ELSE IF ~IsDir(kind) THEN "not_a_directory"
    ELSE "none"

\* Variant: the extension is checked before the path is looked at.
SingleFileReason_ExtensionFirst(kind, sfx) ==
    IF Lower(sfx) \notin SupportedExtensions THEN "unsupported"
    ELSE IF ~Exists(kind) THEN "not_found"
    ELSE IF ~IsFile(kind) THEN "not_a_file"
    ELSE "none"

SingleFileReason(kind, sfx) ==
    IF ~Exists(kind) THEN "not_found"
    ELSE IF ~IsFile(kind) THEN "not_a_file"
    ELSE IF Lower(sfx) \notin SupportedExtensions THEN "unsupported"
    ELSE "none"

\* Variant: success is reported as soon as one file converted.
ExitCodeFor_AnySuccess(s, t) == IF s > 0 \/ t = 0 THEN 0 ELSE 1

\* sys.exit(0 if success_count == total_count else 1)
ExitCodeFor(s, t) == IF s = t THEN 0 ELSE 1

\* -------------------------------------------------------------- partition
\* Variant: the remainder is not handed out.
CurrentChunkSize_NoRemainder(i, chunk_size, remainder) == chunk_size

\* current_chunk_size = chunk_size + (1 if i < remainder else 0)
CurrentChunkSize(i, chunk_size, remainder) ==
    chunk_size + (IF i < remainder THEN 1 ELSE 0)

\* supported_files[start_idx:end_idx]
Slice(files, start_idx, end_idx) ==
    SubSeq(files, start_idx + 1, IF end_idx > Len(files) THEN Len(files) ELSE end_idx)

RECURSIVE BuildChunks(_, _, _, _, _)
BuildChunks(files, n, i, start_idx, chunks) ==
    IF i >= n THEN chunks
    ELSE LET total_files == Len(files)
             end_idx == start_idx
                        + CurrentChunkSize(i, total_files \div n, total_files % n)
         IN IF start_idx < total_files
            THEN BuildChunks(files, n, i + 1, end_idx,
                             Append(chunks, Slice(files, start_idx, end_idx)))
            ELSE BuildChunks(files, n, i + 1, start_idx, chunks)

\* ----------------------------------------------------------------- workers
Chunk(i) == file_chunks[i + 1]
CurrentFile(i) == Chunk(i)[wpos[i]]

\* Variant: every worker publishes under the same key.
SlotKey_Shared(thread_id) == 0

\* results_dict[thread_id] = ...: the key a worker publishes under.
SlotKey(thread_id) == thread_id

\* Variant: a failed file ends the worker's loop.
NextPos_AbortOnFailure(pos, converted) == IF converted THEN pos + 1 ELSE pos + MaxFiles

\* Variant: the loop steps over every other file.
NextPos_Skip(pos, converted) == pos + 2

\* The next position in the chunk after a file returned `converted`.
NextPos(pos, converted) == pos + 1

\* Files whose output, on the same path as f's, is open in another worker.
OpenRivals(i, f) ==
    { CurrentFile(j) : j \in { w \in Workers : /\ w # i
                                               /\ wstate[w] = "running"
                                               /\ wopen[w]
                                               /\ stem[CurrentFile(w)] = stem[f] } }

\* convert_file_to_markdown up to and including open(output_file_path, 'w').
WorkerOpen(i) ==
    /\ wstate[i] = "running"
    /\ wpos[i] <= Len(Chunk(i))
    /\ ~wopen[i]
    /\ CurrentFile(i) # hang
    /\ LET f == CurrentFile(i)
           rivals == OpenRivals(i, f)
       IN /\ invoked' = [invoked EXCEPT ![f] = @ + 1]
          /\ \/ /\ out' = OpenForWrite(out, stem[f])
                /\ wopen' = [wopen EXCEPT ![i] = TRUE]
                /\ raced' = [g \in DOMAIN raced |->
                               IF rivals # {} /\ g \in rivals \cup {f}
                               THEN TRUE ELSE raced[g]]
                /\ UNCHANGED <<returned, wpos>>
             \/ /\ ~ok[f]     \* md.convert / the read raised: caught, return False
                /\ returned' = [returned EXCEPT ![f] = "false"]
                /\ wpos' = [wpos EXCEPT ![i] = NextPos(@, FALSE)]
                /\ UNCHANGED <<out, wopen, raced>>
    /\ UNCHANGED <<mode, pathKind, suffix, num_threads, stem, ok, hang, source, pc, message,
                   file_chunks, idx, threads, wstate, local_success, results_dict,
                   success_count, total_count, result, success, exitCode,
                   slotWrites, firstWrite, lastWriter>>

\* f.write(...), the close, and the return to process_files_chunk.
WorkerWrite(i) ==
    /\ wstate[i] = "running"
    /\ wopen[i]
    /\ LET f == CurrentFile(i)
       IN /\ IF ok[f]
             THEN /\ out' = WriteAtStart(out, stem[f], Content(f))
                  /\ lastWriter' = [lastWriter EXCEPT ![stem[f]] = f]
             ELSE UNCHANGED <<out, lastWriter>>   \* the write raised: caught
          /\ returned' = [returned EXCEPT ![f] = IF ok[f] THEN "true" ELSE "false"]
          /\ local_success' = [local_success EXCEPT ![i] = CountSuccess(@, ok[f])]
          /\ wpos' = [wpos EXCEPT ![i] = NextPos(@, ok[f])]
    /\ wopen' = [wopen EXCEPT ![i] = FALSE]
    /\ UNCHANGED <<mode, pathKind, suffix, num_threads, stem, ok, hang, source, pc, message,
                   file_chunks, idx, threads, wstate, results_dict, success_count,
                   total_count, result, success, exitCode, invoked, slotWrites,
                   firstWrite, raced>>

\* results_dict[thread_id] = (local_success, local_total); the thread ends.
WorkerPublish(i) ==
    /\ wstate[i] = "running"
    /\ wpos[i] > Len(Chunk(i))
    /\ LET k == SlotKey(i)
           pair == <<local_success[i], Len(Chunk(i))>>
       IN /\ results_dict' = [j \in DOMAIN results_dict \cup {k} |->
                                IF j = k THEN pair ELSE results_dict[j]]
          /\ slotWrites' = [slotWrites EXCEPT ![k] = @ + 1]
          /\ firstWrite' = [firstWrite EXCEPT ![k] = IF slotWrites[k] = 0 THEN pair ELSE @]
    /\ wstate' = [wstate EXCEPT ![i] = "finished"]
    /\ UNCHANGED <<mode, pathKind, suffix, num_threads, stem, ok, hang, source, pc, message,
                   file_chunks, idx, threads, wpos, wopen, local_success,
                   success_count, total_count, result, success, exitCode, out,
                   invoked, returned, lastWriter, raced>>

\* ------------------------------------------------------------- main thread
\* Variant: join gives up on a thread that is stuck in a conversion.
JoinReturns_GivesUp(i) == wstate[i] \in {"finished", "blocked"}

\* Variant: join does not wait.
JoinReturns_NoWait(i) == TRUE

\* Variant: a thread is started only for a chunk of two or more files.
ShouldStart_Plural(chunk) == Len(chunk) > 1

\* if chunk: (only create thread if chunk is not empty)
ShouldStart(chunk) == chunk # <<>>

\* thread.join() returns once the thread has ended.
JoinReturns(i) == wstate[i] = "finished"

RECURSIVE SumField(_, _, _)
\* sum(pair[j] for pair in results_dict.values())
SumField(d, keys, j) ==
    IF keys = {} THEN 0
    ELSE LET k == CHOOSE x \in keys : TRUE
         IN d[k][j] + SumField(d, keys \ {k}, j)

workerVars == <<wstate, wpos, wopen, local_success, results_dict, slotWrites, firstWrite>>
inputVars == <<mode, pathKind, suffix, num_threads, stem, ok, hang, source>>
fileVars == <<out, invoked, returned, lastWriter, raced>>

\* process_directory: the directory does not exist, or is no directory.
DirectoryRejected ==
    /\ pc = "main"
    /\ mode = "directory"
    /\ DirectoryReason(pathKind) # "none"
    /\ message' = DirectoryReason(pathKind)
    /\ result' = <<0, 0>>
    /\ pc' = "summary"
    /\ UNCHANGED <<inputVars, workerVars, fileVars, file_chunks, idx, threads,
                   success_count, total_count, success, exitCode>>

\* process_directory: if not supported_files: return 0, 0
NoSupportedFiles ==
    /\ pc = "main"
    /\ mode = "directory"
    /\ DirectoryReason(pathKind) = "none"
    /\ Len(supported_files) = 0
    /\ message' = "no_supported_files"
    /\ result' = <<0, 0>>
    /\ pc' = "summary"
    /\ UNCHANGED <<inputVars, workerVars, fileVars, file_chunks, idx, threads,
                   success_count, total_count, success, exitCode>>

\* process_directory: if num_threads <= 1: the sequential loop begins.
StartSequential ==
    /\ pc = "main"
    /\ mode = "directory"
    /\ DirectoryReason(pathKind) = "none"
    /\ Len(supported_files) > 0
    /\ num_threads <= 1
    /\ pc' = "sequential"
    /\ idx' = 0
    /\ success_count' = 0
    /\ total_count' = 0
    /\ UNCHANGED <<inputVars, workerVars, fileVars, message, file_chunks, threads,
                   result, success, exitCode>>

\* One iteration of the sequential loop: a whole convert_file_to_markdown call.
SequentialConvert ==
    /\ pc = "sequential"
    /\ idx < Len(supported_files)
    /\ supported_files[idx + 1] # hang
    /\ LET f == supported_files[idx + 1]
       IN /\ total_count' = total_count + 1
          /\ invoked' = [invoked EXCEPT ![f] = @ + 1]
          /\ \E o \in ConvertOutcomes(out, f) : out' = o
          /\ returned' = [returned EXCEPT ![f] = IF ok[f] THEN "true" ELSE "false"]
          /\ lastWriter' = IF ok[f] THEN [lastWriter EXCEPT ![stem[f]] = f]
                           ELSE lastWriter
          /\ success_count' = CountSuccess(success_count, ok[f])
    /\ idx' = idx + 1
    /\ UNCHANGED <<inputVars, workerVars, pc, message, file_chunks, threads, result,
                   success, exitCode, raced>>

\* return success_count, total_count
SequentialReturn ==
    /\ pc = "sequential"
    /\ idx = Len(supported_files)
    /\ result' = <<success_count, total_count>>
    /\ pc' = "summary"
    /\ UNCHANGED <<inputVars, workerVars, fileVars, message, file_chunks, idx,
                   threads, success_count, total_count, success, exitCode>>

\* process_directory: divide the files among the threads.
Partition ==
    /\ pc = "main"
    /\ mode = "directory"
    /\ DirectoryReason(pathKind) = "none"
    /\ Len(supported_files) > 0
    /\ num_threads > 1
    /\ file_chunks' = BuildChunks(supported_files, num_threads, 0, 0, <<>>)
    /\ pc' = "spawn"
    /\ idx' = 0
    /\ UNCHANGED <<inputVars, workerVars, fileVars, message, threads, success_count,
                   total_count, result, success, exitCode>>

\* One iteration of "for i, chunk in enumerate(file_chunks)".
StartThread ==
    /\ pc = "spawn"
    /\ idx < Len(file_chunks)
    /\ IF ShouldStart(file_chunks[idx + 1])
       THEN /\ threads' = Append(threads, idx)
            /\ wstate' = [wstate EXCEPT ![idx] = "running"]
       ELSE UNCHANGED <<threads, wstate>>
    /\ idx' = IF idx + 1 = Len(file_chunks) THEN 0 ELSE idx + 1
    /\ pc' = IF idx + 1 = Len(file_chunks) THEN "join" ELSE "spawn"
    /\ UNCHANGED <<inputVars, fileVars, message, file_chunks, wpos, wopen,
                   local_success, results_dict, slotWrites, firstWrite,
                   success_count, total_count, result, success, exitCode>>

\* One iteration of "for thread in threads: thread.join()".
JoinThread ==
    /\ pc = "join"
    /\ idx < Len(threads)
    /\ JoinReturns(threads[idx + 1])
    /\ idx' = idx + 1
    /\ UNCHANGED <<inputVars, workerVars, fileVars, pc, message, file_chunks, threads,
                   success_count, total_count, result, success, exitCode>>

\* total_success = sum(...); total_count = sum(...); return.
Aggregate ==
    /\ pc = "join"
    /\ idx = Len(threads)
    /\ success_count' = SumField(results_dict, DOMAIN results_dict, 1)
    /\ total_count' = SumField(results_dict, DOMAIN results_dict, 2)
    /\ result' = <<success_count', total_count'>>
    /\ pc' = "summary"
    /\ UNCHANGED <<inputVars, workerVars, fileVars, message, file_chunks, idx, threads,
                   success, exitCode>>

\* main: the summary and sys.exit of the --directorypath branch.
ExitDirectory ==
    /\ pc = "summary"
    /\ mode = "directory"
    /\ exitCode' = ExitCodeFor(result[1], result[2])
    /\ pc' = "exited"
    /\ UNCHANGED <<inputVars, workerVars, fileVars, message, file_chunks, idx, threads,
                   success_count, total_count, result, success>>

\* process_single_file: one of the three checks fails.
SingleFileRejected ==
    /\ pc = "main"
    /\ mode = "file"
    /\ SingleFileReason(pathKind, suffix) # "none"
    /\ message' = SingleFileReason(pathKind, suffix)
    /\ success' = "false"
    /\ pc' = "summary"
    /\ UNCHANGED <<inputVars, workerVars, fileVars, file_chunks, idx, threads,
                   success_count, total_count, result, exitCode>>

\* process_single_file: return convert_file_to_markdown(file_path, output_dir)
SingleFileConvert ==
    /\ pc = "main"
    /\ mode = "file"
    /\ SingleFileReason(pathKind, suffix) = "none"
    /\ invoked' = [invoked EXCEPT ![1] = @ + 1]
    /\ \E o \in ConvertOutcomes(out, 1) : out' = o
    /\ returned' = [returned EXCEPT ![1] = IF ok[1] THEN "true" ELSE "false"]
    /\ lastWriter' = IF ok[1] THEN [lastWriter EXCEPT ![stem[1]] = 1] ELSE lastWriter
    /\ success' = IF ok[1] THEN "true" ELSE "false"
    /\ pc' = "summary"
    /\ UNCHANGED <<inputVars, workerVars, message, file_chunks, idx, threads,
                   success_count, total_count, result, exitCode, raced>>

\* main: sys.exit of the --filepath branch.
ExitSingleFile ==
    /\ pc = "summary"
    /\ mode = "file"
    /\ exitCode' = IF success = "true" THEN 0 ELSE 1
    /\ pc' = "exited"
    /\ UNCHANGED <<inputVars, workerVars, fileVars, message, file_chunks, idx, threads,
                   success_count, total_count, result, success>>

Next ==
    \/ DirectoryRejected
    \/ NoSupportedFiles
    \/ StartSequential
    \/ SequentialConvert
    \/ SequentialReturn
    \/ Partition
    \/ StartThread
    \/ JoinThread
    \/ Aggregate
    \/ ExitDirectory
    \/ SingleFileRejected
    \/ SingleFileConvert
    \/ ExitSingleFile
    \/ \E i \in Workers : WorkerOpen(i)
    \/ \E i \in Workers : WorkerWrite(i)
    \/ \E i \in Workers : WorkerPublish(i)

Spec == Init /\ [][Next]_vars

\* The partition on its own: --directorypath on a directory of up to
\* MaxPartFiles files with up to MaxPartThreads threads, followed up to the
\* point where the chunks are built (or the sequential loop is entered).
PartitionInit ==
    /\ mode = "directory"
    /\ pathKind = "dir"
    /\ num_threads \in 0..MaxPartThreads
    /\ \E n \in 0..MaxPartFiles :
          /\ stem = [f \in 1..n |-> "report"]
          /\ ok = [f \in 1..n |-> TRUE]
    /\ suffix = <<>>
    /\ hang = 0
    /\ source = <<>>
    /\ Start

PartitionNext ==
    \/ NoSupportedFiles
    \/ StartSequential
    \/ Partition

PartitionSpec == PartitionInit /\ [][PartitionNext]_vars

\* --------------------------------------------------- source-code conversion
\* Suffixes of the files convert_file_to_markdown is checked on.
SourceSuffixes ==
    { <<".", "a", "b", "p">>, <<".", "A", "B", "P">>, <<".", "p", "y">>,
      <<".", "c">>, <<".", "p", "d", "f">> }

\* The backquote character (U+0060), written as a name: a TLA+ string cannot
\* hold it.
BQ == "backquote"

\* Characters a source text is made of.
SourceChars == { "x", BQ, "\n" }

\* The source texts of up to MaxSourceLen characters.
SourceTexts == UNION { [1..n -> SourceChars] : n \in 0..MaxSourceLen }

\* The members of get_source_code_extensions() that SourceSuffixes can reach.
SourceCodeExtensions == { <<".", "a", "b", "p">>, <<".", "p", "y">>, <<".", "c">> }

\* Variant: the table has no entry, every extension takes the default.
LanguageMap_Default(extension) == <<>>

\* language_map.get(extension, ''), for the extensions above.
LanguageMap(extension) ==
    CASE extension = <<".", "a", "b", "p">> -> <<"a", "b", "a", "p">>
      [] extension = <<".", "p", "y">> -> <<"p", "y", "t", "h", "o", "n">>
      [] extension = <<".", "c">> -> <<"c">>
      [] OTHER -> <<>>

\* The three backquotes of a code fence.
Fence == <<BQ, BQ, BQ>>

\* f"# {input_path.name}\n\n```{language}\n{content}\n```\n"
MarkdownContent(name, language, content) ==
    <<"#", " ">> \o name \o <<"\n", "\n">> \o Fence \o language \o <<"\n">>
        \o content \o <<"\n">> \o Fence \o <<"\n">>

\* input_path.name: the stem (one token) followed by the suffix as written.
FileName(st, sfx) == <<st>> \o sfx

\* What one whole call of convert_source_code_to_markdown can leave in the
\* output directory: the Markdown written, or (when the read or the write
\* raises) the directory untouched or the output truncated.
SourceOutcomes(o, st, sfx, content, converts) ==
    IF converts
    THEN { WriteAtStart(OpenForWrite(o, st), st,
                        MarkdownContent(FileName(st, sfx), LanguageMap(Lower(sfx)), content)) }
    ELSE { o, OpenForWrite(o, st) }

\* convert_file_to_markdown on a source-code file: the suffix is in
\* get_source_code_extensions(), convert_source_code_to_markdown does the work.
ConvertSourceFile ==
    /\ pc = "main"
    /\ mode = "file"
    /\ Lower(suffix) \in SourceCodeExtensions
    /\ invoked' = [invoked EXCEPT ![1] = @ + 1]
    /\ \E o \in SourceOutcomes(out, stem[1], suffix, source, ok[1]) : out' = o
    /\ returned' = [returned EXCEPT ![1] = IF ok[1] THEN "true" ELSE "false"]
    /\ lastWriter' = IF ok[1] THEN [lastWriter EXCEPT ![stem[1]] = 1] ELSE lastWriter
    /\ success' = IF ok[1] THEN "true" ELSE "false"
    /\ pc' = "summary"
    /\ UNCHANGED <<inputVars, workerVars, message, file_chunks, idx, threads,
                   success_count, total_count, result, exitCode, raced>>

\* convert_file_to_markdown on any other file: MarkItDown renders it.
ConvertDocumentFile ==
    /\ pc = "main"
    /\ mode = "file"
    /\ Lower(suffix) \notin SourceCodeExtensions
    /\ invoked' = [invoked EXCEPT ![1] = @ + 1]
    /\ \E o \in ConvertOutcomes(out, 1) : out' = o
    /\ returned' = [returned EXCEPT ![1] = IF ok[1] THEN "true" ELSE "false"]
    /\ lastWriter' = IF ok[1] THEN [lastWriter EXCEPT ![stem[1]] = 1] ELSE lastWriter
    /\ success' = IF ok[1] THEN "true" ELSE "false"
    /\ pc' = "summary"
    /\ UNCHANGED <<inputVars, workerVars, message, file_chunks, idx, threads,
                   success_count, total_count, result, exitCode, raced>>

\* convert_file_to_markdown called on one existing file of any of the
\* suffixes above, with any source text of up to MaxSourceLen characters.
SourceInit ==
    /\ mode = "file"
    /\ pathKind = "file"
    /\ num_threads = 1
    /\ stem \in [1..1 -> Stems]
    /\ ok \in [1..1 -> BOOLEAN]
    /\ suffix \in SourceSuffixes
    /\ hang = 0
    /\ source \in SourceTexts
    /\ Start

SourceNext ==
    \/ ConvertSourceFile
    \/ ConvertDocumentFile

SourceSpec == SourceInit /\ [][SourceNext]_vars

\* ------------------------------------------------------- a hanging conversion
\* A worker calls convert_file_to_markdown on the file whose conversion never
\* returns: the call begins, and the thread stays inside it.
WorkerBlock(i) ==
    /\ wstate[i] = "running"
    /\ wpos[i] <= Len(Chunk(i))
    /\ ~wopen[i]
    /\ CurrentFile(i) = hang
    /\ invoked' = [invoked EXCEPT ![hang] = @ + 1]
    /\ wstate' = [wstate EXCEPT ![i] = "blocked"]
    /\ UNCHANGED <<inputVars, pc, message, file_chunks, idx, threads, wpos, wopen,
                   local_success, results_dict, success_count, total_count, result,
                   success, exitCode, out, returned, slotWrites, firstWrite,
                   lastWriter, raced>>

\* The sequential loop calls convert_file_to_markdown on that file: the main
\* thread stays inside the call.
SequentialBlock ==
    /\ pc = "sequential"
    /\ idx < Len(supported_files)
    /\ supported_files[idx + 1] = hang
    /\ total_count' = total_count + 1
    /\ invoked' = [invoked EXCEPT ![hang] = @ + 1]
    /\ pc' = "blocked"
    /\ UNCHANGED <<inputVars, workerVars, message, file_chunks, idx, threads,
                   success_count, result, success, exitCode, out, returned,
                   lastWriter, raced>>

\* --directorypath on an existing directory of up to MaxFiles files, at most
\* one of which has a conversion that never returns.  No step waits for an
\* output path, so the stems are fixed: report, notes, report, ...
LiveInit ==
    /\ mode = "directory"
    /\ pathKind = "dir"
    /\ num_threads \in 0..MaxThreads
    /\ \E n \in 0..MaxFiles :
          /\ stem = [f \in 1..n |-> IF f % 2 = 1 THEN "report" ELSE "notes"]
          /\ ok \in [1..n -> BOOLEAN]
          /\ hang \in 0..n
    /\ suffix = <<>>
    /\ source = <<>>
    /\ Start

\* A step of the main thread.
MainStep ==
    \/ NoSupportedFiles
    \/ StartSequential
    \/ SequentialConvert
    \/ SequentialBlock
    \/ SequentialReturn
    \/ Partition
    \/ StartThread
    \/ JoinThread
    \/ Aggregate
    \/ ExitDirectory

\* A step of worker thread i.
WorkerStep(i) ==
    \/ WorkerOpen(i)
    \/ WorkerWrite(i)
    \/ WorkerBlock(i)
    \/ WorkerPublish(i)

LiveNext ==
    \/ MainStep
    \/ \E i \in Workers : WorkerStep(i)

\* Every thread that can run does run in the end: the main thread and each
\* started worker are operating-system threads, none waits for a lock, and
\* the only wait is join().
LiveSpec ==
    /\ LiveInit
    /\ [][LiveNext]_vars
    /\ WF_vars(MainStep)
    /\ \A i \in Workers : WF_vars(WorkerStep(i))

\* ------------------------------------------------------------------ claims
Min(a, b) == IF a < b THEN a ELSE b

RECURSIVE Concat(_)
Concat(seqs) == IF seqs = <<>> THEN <<>> ELSE Head(seqs) \o Concat(Tail(seqs))

RECURSIVE SumLen(_)
SumLen(seqs) == IF seqs = <<>> THEN 0 ELSE Len(Head(seqs)) + SumLen(Tail(seqs))

OkFiles == { f \in DOMAIN ok : ok[f] }

\* process_directory has got past the enumeration with the task list in hand.
Divided ==
    \/ pc \in {"sequential", "spawn", "join"}
    \/ pc = "summary" /\ mode = "directory" /\ IsDir(pathKind)

\* The chunks process_directory works through; the sequential loop is one chunk.
ChunksInUse ==
    IF Len(supported_files) = 0 THEN <<>>
    ELSE IF num_threads <= 1 THEN <<supported_files>>
    ELSE file_chunks

\* process_directory has returned for an existing directory.
DirectoryDone == pc \in {"summary", "exited"} /\ mode = "directory" /\ IsDir(pathKind)

\* C1: for T >= 0 files and N >= 1 threads the partition has min(N, T) chunks,
\* none empty, sizes summing to T and differing by at most 1 (the first T mod N
\* have T div N + 1 tasks, the rest T div N), and the chunks concatenated in
\* order are the task list itself.
C1_Partition ==
    (Divided /\ num_threads >= 1) =>
        LET chunks == ChunksInUse
            N == num_threads
        IN /\ Len(chunks) = Min(N, T)
           /\ \A c \in 1..Len(chunks) :
                 /\ chunks[c] # <<>>
                 /\ Len(chunks[c]) = (T \div N) + (IF c - 1 < T % N THEN 1 ELSE 0)
           /\ \A c, d \in 1..Len(chunks) :
                 Len(chunks[c]) - Len(chunks[d]) \in {-1, 0, 1}
           /\ SumLen(chunks) = T
           /\ Concat(chunks) = supported_files

\* C1 witness: 10 files over 3 threads are cut as 4, 3, 3.
C1_Witness ==
    /\ pc = "spawn"
    /\ T = 10
    /\ num_threads = 3
    /\ [c \in 1..Len(file_chunks) |-> Len(file_chunks[c])] = <<4, 3, 3>>

\* C2: whatever the thread count, the interleaving and the per-file outcomes,
\* process_directory returns (successes, attempted) with attempted = T and
\* 0 <= successes <= attempted.
C2_AttemptedIsT ==
    DirectoryDone =>
        /\ result[2] = T
        /\ 0 <= result[1]
        /\ result[1] <= result[2]

\* C2 witness: a threaded run over 3 files, some converted and some not.
C2_Witness ==
    /\ pc = "exited"
    /\ num_threads > 1
    /\ T = 3
    /\ result[2] = 3
    /\ result[1] \in {1, 2}

\* C3: the sequential path and every threaded path call the conversion exactly
\* once per enumerated file and return the same pair, the one the per-file
\* outcomes alone determine: (number of files that convert, T).
C3_SameAsSequential ==
    DirectoryDone =>
        /\ \A f \in DOMAIN stem : invoked[f] = 1
        /\ \A f \in DOMAIN stem : returned[f] = (IF ok[f] THEN "true" ELSE "false")
        /\ result = <<Cardinality(OkFiles), T>>

\* C3 witness: a threaded run whose chunks hold several files has returned.
C3_Witness ==
    /\ pc = "exited"
    /\ num_threads = 2
    /\ T = 3
    /\ \A f \in DOMAIN stem : invoked[f] = 1
    /\ Cardinality(OkFiles) = 2

\* C4: in the threaded path the aggregate is read, and the call returns, only
\* once every started worker has ended and has published its result.
C4_JoinBeforeAggregate ==
    ((pc = "join" /\ idx = Len(threads)) \/ pc \in {"summary", "exited"}) =>
        \A i \in Workers :
            /\ wstate[i] # "running"
            /\ wstate[i] = "finished" => i \in DOMAIN results_dict

\* C4 witness: the main thread is past the joins of three workers.
C4_Witness ==
    /\ pc = "summary"
    /\ Len(threads) = 3
    /\ \A i \in 0..2 : wstate[i] = "finished"

\* C5: a file whose conversion raises is counted as a non-success and nothing
\* else: its worker goes through the rest of its chunk and publishes, the other
\* workers do the same, and the aggregate still counts the failed file.
C5_FailureContained ==
    /\ \A f \in DOMAIN stem : (~ok[f] /\ returned[f] # "pending") => returned[f] = "false"
    /\ \A i \in Workers :
          wstate[i] = "finished" =>
              /\ \A k \in 1..Len(Chunk(i)) : returned[Chunk(i)[k]] # "pending"
              /\ i \in DOMAIN results_dict
              /\ results_dict[i] =
                    <<Cardinality({k \in 1..Len(Chunk(i)) : ok[Chunk(i)[k]]}), Len(Chunk(i))>>
    /\ DirectoryDone =>
          /\ \A f \in DOMAIN stem : returned[f] # "pending"
          /\ result[2] = T
          /\ result[1] = Cardinality(OkFiles)

\* C5 witness: the first file of a chunk failed, the next one of the same
\* chunk was converted all the same, and the run counted all three files.
C5_Witness ==
    /\ pc = "exited"
    /\ num_threads = 2
    /\ T = 3
    /\ ~ok[1] /\ ok[2] /\ ok[3]
    /\ returned[1] = "false" /\ returned[2] = "true"
    /\ result = <<2, 3>>

\* C6: the batch tool exits with code 1 when the path is missing or of the
\* wrong kind (--directorypath: no directory; --filepath: no regular file), and
\* converts nothing then.
C6_InvalidPathExitsOne ==
    (/\ pc = "exited"
     /\ \/ mode = "directory" /\ ~IsDir(pathKind)
        \/ mode = "file" /\ ~IsFile(pathKind)) =>
        /\ exitCode = 1
        /\ \A f \in DOMAIN stem : invoked[f] = 0

\* C7: a batch run over an existing directory exits 0 exactly when successes
\* = attempted: any failed file gives 1, whatever the thread count, and a
\* directory without supported files gives 0.
C7_ExitCode ==
    (pc = "exited" /\ mode = "directory" /\ IsDir(pathKind)) =>
        /\ exitCode \in {0, 1}
        /\ exitCode = 0 <=> result[1] = result[2]
        /\ exitCode = 0 <=> (\A f \in DOMAIN stem : ok[f])
        /\ T = 0 => exitCode = 0

\* C7 witness: one failed file out of three, on three threads, exits 1.
C7_Witness ==
    /\ pc = "exited"
    /\ mode = "directory"
    /\ num_threads = 3
    /\ T = 3
    /\ Cardinality(OkFiles) = 2
    /\ exitCode = 1

AcceptedSuffixes == { <<".", "p", "d", "f">>, <<".", "P", "D", "F">>, <<".", "P", "y">> }

\* C8: process_single_file checks existence, then regular file, then the
\* extension (whatever its case), each with its own reason; a failed check
\* returns failure with no conversion and no output file, and exits 1; the
\* conversion runs only when the three checks pass.
C8_SingleFileValidation ==
    (mode = "file" /\ pc \in {"summary", "exited"}) =>
        /\ pathKind = "missing" => message = "not_found"
        /\ pathKind = "dir" => message = "not_a_file"
        /\ (pathKind = "file" /\ suffix \notin AcceptedSuffixes) => message = "unsupported"
        /\ (pathKind = "file" /\ suffix \in AcceptedSuffixes) => message = "none"
        /\ message = "none" => invoked[1] = 1
        /\ message # "none" =>
              /\ invoked[1] = 0
              /\ out = NoFiles
              /\ success = "false"
              /\ pc = "exited" => exitCode = 1

\* C8 witness: a missing path with an unsupported suffix is reported as not
\* found, and the run exits 1 with the output directory empty.
C8_Witness ==
    /\ pc = "exited"
    /\ mode = "file"
    /\ pathKind = "missing"
    /\ suffix = <<".", "x", "y", "z">>
    /\ message = "not_found"
    /\ exitCode = 1
    /\ out = NoFiles

\* Two enumerated files on one output path, every conversion onto it succeeding.
Colliding(f, g) ==
    /\ f # g
    /\ stem[f] = stem[g]
    /\ \A h \in DOMAIN stem : stem[h] = stem[f] => ok[h]

\* C9 as stated: of two files sharing a stem both are counted as successes and
\* the output holds the content of whichever write came last.
C9_LastWriteWins ==
    (pc = "exited" /\ mode = "directory") =>
        \A f, g \in DOMAIN stem :
            Colliding(f, g) =>
                /\ returned[f] = "true" /\ returned[g] = "true"
                /\ out[stem[f]] = Content(lastWriter[stem[f]])

\* C9 amended: both files are counted as successes; the output holds the
\* content of the conversion that wrote last whenever that conversion had the
\* output to itself from its open to its close.
C9_LastWriteWinsUnlessOverlapped ==
    (pc = "exited" /\ mode = "directory") =>
        \A f, g \in DOMAIN stem :
            Colliding(f, g) =>
                /\ returned[f] = "true" /\ returned[g] = "true"
                /\ result[1] = Cardinality(OkFiles)
                /\ lastWriter[stem[f]] \in { h \in DOMAIN stem : stem[h] = stem[f] }
                /\ ~raced[lastWriter[stem[f]]] =>
                      out[stem[f]] = Content(lastWriter[stem[f]])

\* C9 witness: two files of different chunks share a stem and the one that
\* was enumerated first is the one whose content the output holds.
C9_Witness ==
    /\ pc = "exited"
    /\ num_threads = 2
    /\ T = 2
    /\ Colliding(1, 2)
    /\ lastWriter[stem[1]] = 1
    /\ ~raced[1]
    /\ out[stem[1]] = Content(1)

\* C10: one worker per non-empty chunk, so min(N, T) of them, and none at all
\* (result (0, 0)) when there is no file; each worker writes its pair exactly
\* once, under its own index, and a written slot keeps its value.
C10_SlotsWriteOnce ==
    /\ \A k \in Workers :
          /\ slotWrites[k] <= 1
          /\ slotWrites[k] = 1 <=> wstate[k] = "finished"
          /\ k \in DOMAIN results_dict <=> wstate[k] = "finished"
          /\ k \in DOMAIN results_dict =>
                /\ results_dict[k] = firstWrite[k]
                /\ results_dict[k] = <<local_success[k], Len(Chunk(k))>>
    /\ DOMAIN results_dict \subseteq Workers
    /\ (pc \in {"join", "summary", "exited"} /\ mode = "directory" /\ num_threads > 1) =>
          /\ Len(threads) = Min(num_threads, T)
          /\ { i \in Workers : wstate[i] # "unstarted" } = { c - 1 : c \in 1..Len(file_chunks) }
          /\ \A c \in 1..Len(file_chunks) : file_chunks[c] # <<>>
    /\ (pc \in {"summary", "exited"} /\ mode = "directory" /\ T = 0) =>
          /\ result = <<0, 0>>
          /\ \A i \in Workers : wstate[i] = "unstarted"

\* C10 witness: 2 files on 3 threads: two workers ran and published, the
\* third was never started.
C10_Witness ==
    /\ pc = "exited"
    /\ num_threads = 3
    /\ T = 2
    /\ Len(threads) = 2
    /\ wstate[2] = "unstarted"
    /\ DOMAIN results_dict = {0, 1}

\* A source-code file with the extension .abp, in either case, was converted
\* and nothing raised.
AbpConverted ==
    /\ pc = "summary"
    /\ mode = "file"
    /\ Lower(suffix) = <<".", "a", "b", "p">>
    /\ invoked[1] = 1
    /\ ok[1]

\* C11 as stated: a .abp file converts, and the output is a fenced block
\* whose opening fence is the three backticks alone, the content unmodified
\* between the fences.
C11_AbpEmptyTag ==
    AbpConverted =>
        /\ success = "true"
        /\ out[stem[1]] =
              <<"#", " ", stem[1]>> \o suffix \o <<"\n", "\n", BQ, BQ, BQ, "\n">>
                  \o source \o <<"\n", BQ, BQ, BQ, "\n">>

\* C11 amended: a .abp file converts, and the output is a fenced block whose
\* opening fence carries the tag abap, the content unmodified between the
\* fences.
C11_AbpTaggedAbap ==
    AbpConverted =>
        /\ success = "true"
        /\ out[stem[1]] =
              <<"#", " ", stem[1]>> \o suffix
                  \o <<"\n", "\n", BQ, BQ, BQ, "a", "b", "a", "p", "\n">>
                  \o source \o <<"\n", BQ, BQ, BQ, "\n">>

\* C11 witness: notes.ABP holding a backtick and a newline was converted.
C11_Witness ==
    /\ AbpConverted
    /\ stem[1] = "notes"
    /\ suffix = <<".", "A", "B", "P">>
    /\ source = <<BQ, "\n">>
    /\ success = "true"
    /\ Len(out["notes"]) = 24

\* The worker that owns the chunk holding file f, if the chunks are built.
Owns(i, f) == i < Len(file_chunks) /\ \E k \in 1..Len(Chunk(i)) : Chunk(i)[k] = f

\* Worker i has been through its whole chunk and has published its result.
ChunkDone(i) ==
    /\ wstate[i] = "finished"
    /\ \A k \in 1..Len(Chunk(i)) : returned[Chunk(i)[k]] # "pending"
    /\ i \in DOMAIN results_dict
    /\ results_dict[i][2] = Len(Chunk(i))

\* C12: when one file's conversion never returns, every worker but the owner
\* of that file's chunk gets through its chunk and publishes, the owner never
\* finishes and process_directory never returns; when every conversion
\* returns, process_directory returns.
C12_HangBlocksOnlyOwner ==
    /\ [](hang # 0 => pc \notin {"summary", "exited"})
    /\ [](\A i \in Workers : (hang # 0 /\ Owns(i, hang)) => wstate[i] # "finished")
    /\ (hang # 0 /\ pc = "spawn") ~>
          (\A i \in Workers : (i < Len(file_chunks) /\ ~Owns(i, hang)) => ChunkDone(i))
    /\ (hang = 0 /\ pc = "main") ~> (pc = "exited" /\ result[2] = T)

\* C12 witness: of three workers the second is stuck in its conversion, the
\* two others have published, and the main thread waits in its joins.
C12_Witness ==
    /\ hang = 2
    /\ num_threads = 3
    /\ T = 3
    /\ pc = "join"
    /\ wstate = [i \in Workers |-> IF i = 1 THEN "blocked" ELSE "finished"]
    /\ ChunkDone(0) /\ ChunkDone(2)
    /\ idx = 1

====
